---- MODULE Spec2Model ----
(***************************************************************************)
(* A model of gravwell/filewatch's FilterManager (filters.go): the filter  *)
(* registry, the follower table, the offset map ("states") with its        *)
(* shared offset cells, the durable state file, and the operations that    *)
(* the directory watcher calls.  Every public method is one action, since  *)
(* each holds the manager mutex for its whole body.  A second               *)
(* specification, SpecLock, takes the mutex apart: callers wait for it,    *)
(* hold it while their method runs, and release it.                        *)
(***************************************************************************)
EXTENDS Integers, Sequences, FiniteSets, TLC

\* ------------------------------------------------------------------ bounds
MaxId == 2          \* file identities are 1..MaxId; 0 stands for "no file"
MaxFilters == 2     \* AddFilter is disabled once this many filters exist
MaxFollowed == 2    \* intake is disabled while this many followers exist
MaxFsEvents == 2    \* the file system changes at most this often
MaxRestarts == 1    \* managers constructed after the first; the last is only constructed
MaxCallers == 2     \* goroutines that call the manager concurrently (SpecLock)
MaxCalls == 3       \* calls the callers make in all (SpecLock)

\* ------------------------------------------------------- paths and patterns
\* A path is a directory (a sequence of components) and a base name (a
\* sequence of characters); filepath.Dir and filepath.Base take it apart.
LogsDir == <<"logs">>
OldDir == <<"logs", "old">>

PathALog == [dir |-> LogsDir, base |-> <<"a", ".", "l">>]
PathALog1 == [dir |-> LogsDir, base |-> <<"a", ".", "l", ".", "1">>]
PathOldALog == [dir |-> OldDir, base |-> <<"a", ".", "l">>]

PathSeq == <<PathALog, PathALog1, PathOldALog>>
Paths == {PathSeq[n] : n \in 1..Len(PathSeq)}

Dir(fpath) == fpath.dir
Base(fpath) == fpath.base

\* filepath.Clean on a directory: "." components are dropped.
Clean(loc) == SelectSeq(loc, LAMBDA c : c # ".")

\* filepath.Match restricted to literals, "?" and "*".
RECURSIVE Match(_, _)
Match(pat, name) ==
  IF pat = <<>> THEN name = <<>>
  ELSE IF Head(pat) = "*"
       THEN \E i \in 0..Len(name) : Match(Tail(pat), SubSeq(name, i + 1, Len(name)))
       ELSE /\ name # <<>>
            /\ (Head(pat) = "?" \/ Head(pat) = Head(name))
            /\ Match(Tail(pat), Tail(name))

matchFile(mtchs, fname) == \E n \in 1..Len(mtchs) : Match(mtchs[n], fname)

\* A path is in a filter's scope: its directory is the filter's and a pattern
\* matches its base name.
satisfies(v, fpath) == ~(v.loc # Dir(fpath) \/ ~matchFile(v.mtchs, Base(fpath)))

\* The AddFilter calls the model makes: (bname, loc, mtchs).
StarLog == <<"*", ".", "l">>
AStar == <<"a", "*">>
QLog1 == <<"?", ".", "l", ".", "1">>
FilterArgs ==
  { [bname |-> "A", loc |-> LogsDir, mtchs |-> <<StarLog>>],
    [bname |-> "B", loc |-> <<"logs", ".">>, mtchs |-> <<QLog1, AStar>>],
    [bname |-> "A", loc |-> OldDir, mtchs |-> <<StarLog>>] }

\* ------------------------------------------------------------------ state
VARIABLES
  filters,     \* fm.filters: sequence of [bname, loc, mtchs]
  followers,   \* fm.followers: FileName -> follower
  states,      \* fm.states: FileName -> offset cell (a pointer)
  cells,       \* the heap of offset cells: cell -> int64 value
  stateFout,   \* fm.stateFout: "open" or "nil"
  disk,        \* content of the state file: FileName -> offset
  fs,          \* the file system: path -> file identity, 0 when absent
  fsCount,     \* how often the file system has changed
  origin,      \* after a call: cell -> the cell it was before the call, Nil if new
  pre,         \* after a call: the tables as the call found them
  closed,      \* TRUE once Close has set fm.followers and fm.filters to nil
  closeOk,     \* what this manager's first Close returned: "none" before it
  gen,         \* how many managers were constructed on the state file before this one
  last,        \* the last call: [op, fpath, err]
  log,         \* follower/state-file events of the last call, in order
  mtx,         \* fm.mtx: the caller that holds it, 0 when it is free
  pc,          \* where each caller is: [at, op, arg, seen, ticket]
  acquired,    \* how many times fm.mtx has been locked
  returned     \* how many times fm.mtx has been unlocked

vars == <<filters, followers, states, cells, stateFout, disk, fs, closed, last, log, fsCount,
          origin, pre, closeOk, gen, mtx, pc, acquired, returned>>

Ids == 1..MaxId
NoFile == 0
FileName(bname, fpath) == [BaseName |-> bname, FilePath |-> fpath]

\* The file of identity id holds id - 1 bytes.
FileSize(id) == id - 1

\* Go maps as explicit function tables.
EmptyMap == <<>>
Table(f) == f @@ EmptyMap
MapDel(m, k) == Table([x \in DOMAIN m \ {k} |-> m[x]])
MapPut(m, k, v) == (k :> v) @@ m

\* An error value is the sequence of the failures it reports; nil is empty.
NoErr == <<>>
Err(kind, key) == <<[kind |-> kind, key |-> key]>>
StateFilePath == [dir |-> <<"var">>, base |-> <<"s">>]
StateKey == FileName("", StateFilePath)
Event(ev, key) == [ev |-> ev, key |-> key]
Nil == 0

\* ------------------------------------------------ the follower collaborator
\* follower.go: NewFollower(bname, fpath, si, filterId, lh) followed by Start().
followerNew(bname, fpath, id, si, filterId) ==
  [FileName |-> FileName(bname, fpath), id |-> id, filterId |-> filterId, state |-> si]

\* follower.Close() of the follower registered at k: the call is recorded, and
\* so is its failure, which strikes the followers in fails.
closeFails(k, fails) == k \in fails
followerClose(M, k, fails) ==
  [M EXCEPT !.log = IF closeFails(k, fails)
                    THEN @ \o <<Event("close", k), Event("close error", k)>>
                    ELSE Append(@, Event("close", k))]

\* new(int64): an address no cell of this call or of the state it began in has.
newCell(used) == CHOOSE c \in 1..(Cardinality(used) + 1) : c \notin used

\* The working copy of the manager's tables during one call.
Begin ==
  [followers |-> followers, states |-> states, cells |-> cells,
   used |-> DOMAIN cells, log |-> <<>>, err |-> NoErr, isRename |-> FALSE]

\* Cells no table and no registered follower points to are garbage.
liveCells(M) ==
  {M.states[k] : k \in DOMAIN M.states} \cup
  {M.followers[k].state : k \in DOMAIN M.followers}

\* ---------------------------------------------------------------- helpers
\* Fault: a lookup by path alone, which hands one filter another filter's cell.
seekInfoAnyName(M, bname, fpath) ==
  IF \E k \in DOMAIN M.states : k.FilePath = fpath
  THEN M.states[CHOOSE k \in DOMAIN M.states : k.FilePath = fpath]
  ELSE Nil

seekInfo(M, bname, fpath) ==
  IF \E k \in DOMAIN M.states : k.BaseName = bname /\ k.FilePath = fpath
  THEN M.states[FileName(bname, fpath)]
  ELSE Nil

\* Fault: launchFollowers that looks the recorded cell up whatever it was told.
recordedCellAlways(M, bname, fpath, deleteState) == seekInfo(M, bname, fpath)

\* launchFollowers looks a recorded cell up unless it was told to start afresh.
recordedCell(M, bname, fpath, deleteState) ==
  IF ~deleteState THEN seekInfo(M, bname, fpath) ELSE Nil

addSeekInfo(M, bname, fpath) ==
  LET si == newCell(M.used) IN
  [M EXCEPT !.cells = MapPut(@, si, 0),
            !.states = MapPut(@, FileName(bname, fpath), si),
            !.used = @ \cup {si}]

addFollower(M, bname, fpath, si, filterId, fails, startFails) ==
  LET stid == FileName(bname, fpath)
      id == fs[fpath]
      occupied == stid \in DOMAIN M.followers
  IN
  IF id = NoFile THEN [M EXCEPT !.err = Err("stat", stid)]
  ELSE IF occupied /\ M.followers[stid].id = id
  THEN [M EXCEPT !.err = Err("duplicate follower", stid)]
  ELSE LET M1 == IF occupied
                 THEN followerClose([M EXCEPT !.followers = MapDel(@, stid),
                                              !.states = MapDel(@, stid)], stid, fails)
                 ELSE M
       IN
       IF occupied /\ closeFails(stid, fails)
       THEN [M1 EXCEPT !.err = Err("close", stid)]
       ELSE IF startFails
       THEN [M1 EXCEPT !.err = Err("start", stid)]
       ELSE [M1 EXCEPT !.followers = MapPut(@, stid, followerNew(bname, fpath, id, si, filterId)),
                       !.log = Append(@, Event("start", stid))]

\* One pass of checkRename's loop body, for the table entry at k.
checkRenameEntry(M, k, fpath, id, fails) ==
  IF M.err # NoErr \/ k \notin DOMAIN M.followers THEN M
  ELSE
  LET v == M.followers[k] IN
  IF v.id # id THEN M
  ELSE IF v.filterId >= Len(filters) \/ v.filterId < 0
  THEN [M EXCEPT !.err = Err("index out of range", k)]
  ELSE
  LET flt == filters[v.filterId + 1]
      k2 == [k EXCEPT !.FilePath = fpath]
  IN
  IF ~satisfies(flt, fpath)
  THEN [M EXCEPT !.states = MapPut(MapDel(@, k), k2, v.state),
                 !.followers = MapPut(MapDel(@, k), k2, [v EXCEPT !.FileName.FilePath = fpath]),
                 !.isRename = TRUE]
  ELSE LET C == followerClose(M, k, fails) IN
       IF closeFails(k, fails)
       THEN [C EXCEPT !.err = Err("close", k)]
       ELSE [C EXCEPT !.states = MapDel(@, k), !.followers = MapDel(@, k)]

\* checkRename ranges over the follower map in the order Go happens to pick.
RECURSIVE checkRename(_, _, _, _, _)
checkRename(M, order, fpath, id, fails) ==
  IF order = <<>> THEN M
  ELSE checkRename(checkRenameEntry(M, Head(order), fpath, id, fails),
                   Tail(order), fpath, id, fails)

RECURSIVE launchLoop(_, _, _, _, _, _)
launchLoop(M, i, fpath, deleteState, fails, failAt) ==
  IF i >= Len(filters) \/ M.err # NoErr THEN M
  ELSE
  LET v == filters[i + 1] IN
  IF ~satisfies(v, fpath)
  THEN launchLoop(M, i + 1, fpath, deleteState, fails, failAt)
  ELSE
  LET found == recordedCell(M, v.bname, fpath, deleteState)
      M1 == IF found = Nil THEN addSeekInfo(M, v.bname, fpath) ELSE M
      si == IF found = Nil THEN M1.states[FileName(v.bname, fpath)] ELSE found
  IN launchLoop(addFollower(M1, v.bname, fpath, si, i, fails, failAt = i),
                i + 1, fpath, deleteState, fails, failAt)

launchFollowers(M, fpath, deleteState, order, fails, failAt) ==
  IF fs[fpath] = NoFile THEN [M EXCEPT !.err = Err("stat", FileName("", fpath))]
  ELSE
  LET M1 == checkRename(M, order, fpath, fs[fpath], fails) IN
  IF M1.err # NoErr \/ M1.isRename THEN M1
  ELSE launchLoop(M1, 0, fpath, deleteState, fails, failAt)

RECURSIVE nolockRemoveLoop(_, _, _, _)
nolockRemoveLoop(M, i, fpath, fails) ==
  IF i >= Len(filters) THEN M
  ELSE
  LET stid == FileName(filters[i + 1].bname, fpath) IN
  IF stid \notin DOMAIN M.followers
  THEN nolockRemoveLoop(M, i + 1, fpath, fails)
  ELSE LET M1 == followerClose([M EXCEPT !.followers = MapDel(@, stid),
                                         !.states = MapDel(@, stid)], stid, fails)
       IN IF closeFails(stid, fails)
          THEN [M1 EXCEPT !.err = Err("close", stid)]
          ELSE nolockRemoveLoop(M1, i + 1, fpath, fails)

nolockRemoveFollower(M, fpath, fails) == nolockRemoveLoop(M, 0, fpath, fails)

\* filepath.Walk below base: the regular files under it whose base name matches
\* and whose identity is id.  No two paths of fs share an identity.
IsUnder(base, d) == Len(base) <= Len(d) /\ SubSeq(d, 1, Len(base)) = base
findFileId(base, mtchs, id) ==
  {p \in Paths : /\ fs[p] # NoFile
                 /\ IsUnder(base, Dir(p))
                 /\ matchFile(mtchs, Base(p))
                 /\ fs[p] = id}

\* RenameFollower's "just update the names" branch.
renameKeys(M, stid, p, fails) ==
  LET flw == M.followers[stid]
      M1 == [M EXCEPT !.followers = MapDel(@, stid)]
      newid == [stid EXCEPT !.FilePath = p]
  IN
  IF stid \notin DOMAIN M.states
  THEN [followerClose(M1, stid, fails) EXCEPT !.err = Err("failed to find state on rename", stid)]
  ELSE [M1 EXCEPT !.states = MapPut(@, newid, M.states[stid]),
                  !.followers = MapPut(@, newid, [flw EXCEPT !.FileName = stid])]

\* RenameFollower's branch for a follower found under another filter id.
renameMigrate(M, stid, p, i, fails, failAt) ==
  LET v == filters[i + 1] IN
  IF stid \notin DOMAIN M.states
  THEN [followerClose([M EXCEPT !.followers = MapDel(@, stid)], stid, fails)
          EXCEPT !.err = Err("Failed to find old state", stid)]
  ELSE LET st == M.states[stid]
           M1 == followerClose([M EXCEPT !.followers = MapDel(@, stid),
                                         !.states = MapDel(@, stid)], stid, fails)
       IN IF closeFails(stid, fails)
          THEN [M1 EXCEPT !.err = Err("close", stid)]
          ELSE addFollower([M1 EXCEPT !.cells[st] = 0], v.bname, p, st, i, fails, failAt = i)

RECURSIVE renameLoop(_, _, _, _, _, _, _)
renameLoop(M, i, fpath, id, fails, failAt, walkErrAt) ==
  IF i >= Len(filters) THEN nolockRemoveFollower(M, fpath, fails)
  ELSE
  LET v == filters[i + 1]
      stid == FileName(v.bname, fpath)
      found == findFileId(v.loc, v.mtchs, id)
  IN
  IF stid \notin DOMAIN M.followers
  THEN renameLoop(M, i + 1, fpath, id, fails, failAt, walkErrAt)
  ELSE IF walkErrAt = i
  THEN [followerClose(M, stid, fails) EXCEPT !.states = MapDel(@, stid),
                                      !.followers = MapDel(@, stid),
                                      !.err = Err("walk", stid)]
  ELSE IF found = {}
  THEN renameLoop(M, i + 1, fpath, id, fails, failAt, walkErrAt)
  ELSE LET p == CHOOSE x \in found : TRUE IN
       IF p = fpath THEN M
       ELSE IF M.followers[stid].filterId # i
       THEN renameMigrate(M, stid, p, i, fails, failAt)
       ELSE renameKeys(M, stid, p, fails)

\* ------------------------------------------------------------ persistence
\* Fault: an encoding that leaves out the offsets that are zero.
SnapshotNonZero(M) ==
  [k \in {x \in DOMAIN M.states : M.cells[M.states[x]] # 0} |-> M.cells[M.states[k]]]

\* gob encoding of fm.states: the offsets the cells hold, keyed as the map is.
Snapshot(M) == [k \in DOMAIN M.states |-> M.cells[M.states[k]]]

\* Fault: a file as large as the recorded offset is taken for a truncated one.
cleanStatesOrEqual(loaded, files) ==
  LET kept == {k \in DOMAIN loaded : files[k.FilePath] # NoFile} IN
  [k \in kept |-> IF FileSize(files[k.FilePath]) <= loaded[k] THEN 0 ELSE loaded[k]]

\* files is the file system NewFilterManager runs on.
cleanStates(loaded, files) ==
  LET kept == {k \in DOMAIN loaded : files[k.FilePath] # NoFile} IN
  [k \in kept |-> IF FileSize(files[k.FilePath]) < loaded[k] THEN 0 ELSE loaded[k]]

appendErr(err, nerr) == IF err = NoErr THEN nerr ELSE err \o nerr

\* gob decoding gives every loaded key a cell of its own.
RECURSIVE loadStates(_, _)
loadStates(loaded, M) ==
  IF DOMAIN loaded = {} THEN M
  ELSE LET k == CHOOSE x \in DOMAIN loaded : TRUE
           si == newCell(M.used)
       IN loadStates(MapDel(loaded, k),
                     [M EXCEPT !.states = MapPut(@, k, si),
                               !.cells = MapPut(@, si, loaded[k]),
                               !.used = @ \cup {si}])

Perms(S) ==
  {o \in [1..Cardinality(S) -> S] : \A a, b \in 1..Cardinality(S) : o[a] = o[b] => a = b}

\* --------------------------------------------------------- ghost bookkeeping
Call(op, fpath, err) == [op |-> op, fpath |-> fpath, err |-> err]

\* An address means nothing but its identity, so the cells a call leaves are
\* numbered by the first table slot that points to them (the offset map's
\* keys, then the follower table's), and origin keeps which cell each was.
NameSeq == <<"A", "B">>
Index(seq, x) == CHOOSE n \in 1..Len(seq) : seq[n] = x
KeyRank(k) == (Index(NameSeq, k.BaseName) - 1) * Len(PathSeq) + Index(PathSeq, k.FilePath)
Least(S) == CHOOSE n \in S : \A m \in S : n <= m
slotRank(M, c) ==
  Least({KeyRank(k) : k \in {x \in DOMAIN M.states : M.states[x] = c}} \cup
        {Len(NameSeq) * Len(PathSeq) + KeyRank(k) :
           k \in {x \in DOMAIN M.followers : M.followers[x].state = c}})
renumbering(M) ==
  LET rank == Table([c \in liveCells(M) |-> slotRank(M, c)]) IN
  Table([c \in liveCells(M) |-> 1 + Cardinality({d \in liveCells(M) : rank[d] < rank[c]})])

\* The tables a call leaves behind; before holds the cells the call began with.
Canonical(M, before) ==
  LET new == renumbering(M)
      old == Table([n \in 1..Cardinality(liveCells(M)) |-> CHOOSE c \in liveCells(M) : new[c] = n])
  IN [followers |-> [k \in DOMAIN M.followers |-> [M.followers[k] EXCEPT !.state = new[@]]],
      states |-> [k \in DOMAIN M.states |-> new[M.states[k]]],
      cells |-> [n \in DOMAIN old |-> M.cells[old[n]]],
      origin |-> [n \in DOMAIN old |-> IF old[n] \in before THEN old[n] ELSE Nil]]

Store(M) ==
  \E C \in {Canonical(M, DOMAIN cells)} :
  /\ followers' = C.followers
  /\ states' = C.states
  /\ cells' = C.cells
  /\ origin' = C.origin

\* The tables as a call finds them.
Tables ==
  [filters |-> filters, followers |-> followers, states |-> states, cells |-> cells,
   stateFout |-> stateFout]
NoTables ==
  [filters |-> <<>>, followers |-> EmptyMap, states |-> EmptyMap, cells |-> EmptyMap,
   stateFout |-> "nil"]

\* What fm.mtx guards: the registry, the two tables and the store handle.
Guarded(T) ==
  [filters |-> T.filters, followers |-> T.followers, states |-> T.states,
   stateFout |-> T.stateFout]

\* The callers of the manager, and a caller that is in no call.
Callers == 1..MaxCallers
NotCalling ==
  [at |-> "idle", op |-> "idle", arg |-> StateFilePath, seen |-> Guarded(NoTables),
   ticket |-> 0]

\* The tables and the record of a call.
Commit(M, op, fpath) ==
  /\ Store(M)
  /\ log' = M.log
  /\ last' = Call(op, fpath, M.err)
  /\ pre' = Tables

\* fm.mtx: a call starts when no other call holds the mutex, and its record
\* stands until the mutex is released.
Idle == last.op = "idle"

\* The manager whose calls the model follows.
Running == gen < MaxRestarts

\* The call returns: its record is dropped.
Return ==
  /\ ~Idle
  /\ last' = Call("idle", StateFilePath, NoErr)
  /\ log' = <<>>
  /\ origin' = EmptyMap
  /\ pre' = NoTables
  /\ UNCHANGED <<filters, followers, states, cells, stateFout, disk, fs, closed, fsCount, closeOk, gen>>

Unlock ==
  /\ Return
  /\ UNCHANGED <<mtx, pc, acquired, returned>>

\* What the follower goroutines and the file system do between calls.
External ==
  /\ Idle
  /\ UNCHANGED <<last, log, origin, pre,
               mtx, pc, acquired, returned>>

Followed == Cardinality(DOMAIN followers)
Filters == Len(filters)

\* ------------------------------------------------------------------- Init
\* The agent is restarted on a state file that records three offsets: of a file
\* truncated since, of a file that is unchanged and of a file that is gone.
NoFiles == [p \in Paths |-> NoFile]
Start ==
  [data |-> [k \in {FileName("A", PathALog), FileName("B", PathALog1),
                    FileName("A", PathOldALog)} |-> 1],
   files |-> [NoFiles EXCEPT ![PathALog] = 1, ![PathALog1] = 2]]

\* NewFilterManager(stateFile): the state file is decoded and sanitized.
initStateFile(start) ==
  Canonical(loadStates(cleanStates(start.data, start.files),
                       [states |-> EmptyMap, cells |-> EmptyMap, used |-> {},
                        followers |-> EmptyMap]), {})

NewFilterManager(start) ==
  LET C == initStateFile(start)
  IN /\ states = C.states
     /\ cells = C.cells
     /\ filters = <<>>
     /\ followers = EmptyMap
     /\ stateFout = "open"
     /\ disk = [ok |-> TRUE, data |-> start.data]
     /\ fs = start.files
     /\ closed = FALSE
     /\ closeOk = "none"
     /\ gen = 0
     /\ fsCount = 0
     /\ origin = EmptyMap
     /\ pre = NoTables
     /\ last = Call("NewFilterManager", StateFilePath, NoErr)
     /\ log = <<>>
     /\ mtx = 0
     /\ pc = [c \in Callers |-> NotCalling]
     /\ acquired = 0
     /\ returned = 0

Init == NewFilterManager(Start)

\* ---------------------------------------------------------------- actions
\* Fault: a registry that puts the new filter first, moving every index.
AddFilterFront(a) ==
  /\ Idle
  /\ Running
  /\ ~closed
  /\ Len(filters) < MaxFilters
  /\ filters' = <<[bname |-> a.bname, loc |-> Clean(a.loc), mtchs |-> a.mtchs]>> \o filters
  /\ last' = Call("AddFilter", StateFilePath, NoErr)
  /\ log' = <<>>
  /\ origin' = [c \in DOMAIN cells |-> c]
  /\ pre' = Tables
  /\ UNCHANGED <<followers, states, cells, stateFout, disk, fs, closed, fsCount, closeOk, gen,
               mtx, pc, acquired, returned>>

AddFilter(a) ==
  /\ Idle
  /\ Running
  /\ ~closed
  /\ Len(filters) < MaxFilters
  /\ filters' = Append(filters, [bname |-> a.bname, loc |-> Clean(a.loc), mtchs |-> a.mtchs])
  /\ last' = Call("AddFilter", StateFilePath, NoErr)
  /\ log' = <<>>
  /\ origin' = [c \in DOMAIN cells |-> c]
  /\ pre' = Tables
  /\ UNCHANGED <<followers, states, cells, stateFout, disk, fs, closed, fsCount, closeOk, gen,
               mtx, pc, acquired, returned>>

\* The followers an intake of fpath can close, and the filters it can start.
sameId(fpath) ==
  {k \in DOMAIN followers : fs[fpath] # NoFile /\ followers[k].id = fs[fpath]}
atPath(fpath) == {k \in DOMAIN followers : k.FilePath = fpath}
matching(fpath) ==
  {i \in 0..(Len(filters) - 1) :
     satisfies(filters[i + 1], fpath)}

NewFollower(fpath) ==
  /\ Idle
  /\ Running
  /\ ~closed
  /\ Followed < MaxFollowed
  /\ \E order \in Perms(sameId(fpath)) :
     \E fails \in SUBSET (sameId(fpath) \cup atPath(fpath)) :
     \E failAt \in {-1} \cup matching(fpath) :
       Commit(launchFollowers(Begin, fpath, TRUE, order, fails, failAt), "NewFollower", fpath)
  /\ UNCHANGED <<filters, stateFout, disk, fs, closed, fsCount, closeOk, gen,
               mtx, pc, acquired, returned>>

LoadFile(fpath) ==
  /\ Idle
  /\ Running
  /\ ~closed
  /\ Followed < MaxFollowed
  /\ \E order \in Perms(sameId(fpath)) :
     \E fails \in SUBSET (sameId(fpath) \cup atPath(fpath)) :
     \E failAt \in {-1} \cup matching(fpath) :
       Commit(launchFollowers(Begin, fpath, FALSE, order, fails, failAt), "LoadFile", fpath)
  /\ UNCHANGED <<filters, stateFout, disk, fs, closed, fsCount, closeOk, gen,
               mtx, pc, acquired, returned>>

RemoveFollower(fpath) ==
  /\ Idle
  /\ Running
  /\ ~closed
  /\ \E fails \in SUBSET atPath(fpath) :
       Commit(nolockRemoveFollower(Begin, fpath, fails), "RemoveFollower", fpath)
  /\ UNCHANGED <<filters, stateFout, disk, fs, closed, fsCount, closeOk, gen,
               mtx, pc, acquired, returned>>

\* The followers whose recorded path is fpath: the last one the map yields
\* gives RenameFollower the identity it searches for.
recordedAt(fpath) == {k \in DOMAIN followers : followers[k].FileName.FilePath = fpath}

followedBy(fpath) ==
  {i \in 0..(Len(filters) - 1) : FileName(filters[i + 1].bname, fpath) \in DOMAIN followers}

RenameFollower(fpath) ==
  /\ Idle
  /\ Running
  /\ ~closed
  /\ IF recordedAt(fpath) = {}
     THEN Commit(Begin, "RenameFollower", fpath)
     ELSE \E h \in recordedAt(fpath) :
          \E fails \in SUBSET (atPath(fpath) \cup sameId(fpath)) :
          \E failAt \in {-1} \cup followedBy(fpath) :
          \E walkErrAt \in {-1} \cup followedBy(fpath) :
            Commit(renameLoop(Begin, 0, fpath, followers[h].id, fails, failAt, walkErrAt),
                   "RenameFollower", fpath)
  /\ UNCHANGED <<filters, stateFout, disk, fs, closed, fsCount, closeOk, gen,
               mtx, pc, acquired, returned>>

\* Fault: a loop that gives up at the first follower that fails to close.
RECURSIVE closeAllUntilError(_, _, _)
closeAllUntilError(M, order, fails) ==
  IF order = <<>> THEN M
  ELSE LET k == Head(order)
           M1 == followerClose(M, k, fails)
       IN IF closeFails(k, fails)
          THEN [M1 EXCEPT !.err = appendErr(@, Err("close", k))]
          ELSE closeAllUntilError(M1, Tail(order), fails)

\* Close's loop over fm.followers, in the order the map yields them.
RECURSIVE closeAll(_, _, _)
closeAll(M, order, fails) ==
  IF order = <<>> THEN M
  ELSE LET k == Head(order)
           M1 == followerClose(M, k, fails)
       IN closeAll(IF closeFails(k, fails)
                   THEN [M1 EXCEPT !.err = appendErr(@, Err("close", k))]
                   ELSE M1,
                   Tail(order), fails)

\* dumpStates: fault is the step that fails, if any.  A failed seek or truncate
\* leaves the file as it was; a failed encode leaves it undecodable.
DumpFaults == {"none", "seek", "truncate", "encode"}
dumpStates(M, fault) ==
  IF stateFout = "nil" THEN [err |-> NoErr, disk |-> disk, log |-> M.log]
  ELSE IF fault \in {"seek", "truncate"}
  THEN [err |-> Err(fault, StateKey), disk |-> disk, log |-> Append(M.log, Event("dump", StateKey))]
  ELSE IF fault = "encode"
  THEN [err |-> Err(fault, StateKey), disk |-> [ok |-> FALSE, data |-> EmptyMap],
        log |-> Append(M.log, Event("dump", StateKey))]
  ELSE [err |-> NoErr, disk |-> [ok |-> TRUE, data |-> Snapshot(M)],
        log |-> Append(M.log, Event("dump", StateKey))]

\* The rest of Close after the followers were closed and the tables cleared:
\* what it returns, what it leaves of the handle, and the events it adds.
closeTail(M, D, fcloseFails) ==
  IF D.err # NoErr
  THEN [err |-> D.err, stateFout |-> stateFout, log |-> D.log]
  ELSE IF stateFout = "nil"
  THEN [err |-> Err("invalid argument", StateKey), stateFout |-> stateFout,
        log |-> Append(D.log, Event("fclose nil", StateKey))]
  ELSE IF fcloseFails
  THEN [err |-> Err("fclose", StateKey), stateFout |-> stateFout,
        log |-> Append(D.log, Event("fclose", StateKey))]
  ELSE [err |-> M.err, stateFout |-> "nil", log |-> Append(D.log, Event("fclose", StateKey))]

Close ==
  /\ Idle
  /\ Running
  /\ \E order \in Perms(DOMAIN followers) :
     \E fails \in SUBSET DOMAIN followers :
     \E fault \in DumpFaults :
     \E fcloseFails \in BOOLEAN :
     \E M \in {[closeAll(Begin, order, fails) EXCEPT !.followers = EmptyMap]} :
     \E D \in {dumpStates(M, fault)} :
     \E T \in {closeTail(M, D, fcloseFails)} :
       /\ Store(M)
       /\ filters' = <<>>
       /\ closed' = TRUE
       /\ disk' = D.disk
       /\ stateFout' = T.stateFout
       /\ log' = T.log
       /\ last' = Call("Close", StateFilePath, T.err)
       /\ closeOk' = IF closeOk # "none" THEN closeOk
                     ELSE IF T.err = NoErr THEN "ok" ELSE "failed"
       /\ pre' = Tables
  /\ UNCHANGED <<fs, fsCount, gen,
               mtx, pc, acquired, returned>>

\* The agent starts again: NewFilterManager on the state file as the closed
\* manager left it.  An undecodable file fails the construction.
Reopen ==
  /\ Idle
  /\ Running
  /\ closed
  /\ log' = <<>>
  /\ pre' = Tables
  /\ IF ~disk.ok
     THEN /\ last' = Call("NewFilterManager", StateFilePath, Err("decode", StateKey))
          /\ origin' = [c \in DOMAIN cells |-> c]
          /\ UNCHANGED <<filters, followers, states, cells, stateFout, closed, closeOk, gen>>
     ELSE \E C \in {initStateFile([data |-> disk.data, files |-> fs])} :
          /\ last' = Call("NewFilterManager", StateFilePath, NoErr)
          /\ states' = C.states
          /\ cells' = C.cells
          /\ origin' = C.origin
          /\ filters' = <<>>
          /\ followers' = EmptyMap
          /\ stateFout' = "open"
          /\ closed' = FALSE
          /\ closeOk' = "none"
          /\ gen' = gen + 1
  /\ UNCHANGED <<disk, fs, fsCount,
               mtx, pc, acquired, returned>>

\* A registered follower consumes one more byte of the file it holds open.
FollowerRead(k) ==
  /\ Running
  /\ ~closed
  /\ k \in DOMAIN followers
  /\ cells[followers[k].state] < FileSize(followers[k].id)
  /\ cells' = [cells EXCEPT ![followers[k].state] = @ + 1]
  /\ External
  /\ UNCHANGED <<filters, followers, states, stateFout, disk, fs, closed, fsCount, closeOk, gen>>

\* The file system changes under the manager.
FsCreate(p, id) ==
  /\ fsCount < MaxFsEvents
  /\ fsCount' = fsCount + 1
  /\ fs[p] = NoFile
  /\ \A q \in Paths : fs[q] # id
  /\ fs' = [fs EXCEPT ![p] = id]
  /\ External
  /\ UNCHANGED <<filters, followers, states, cells, stateFout, disk, closed, closeOk, gen>>

FsRename(p, q) ==
  /\ fsCount < MaxFsEvents
  /\ fsCount' = fsCount + 1
  /\ fs[p] # NoFile
  /\ p # q
  /\ fs' = [fs EXCEPT ![q] = fs[p], ![p] = NoFile]
  /\ External
  /\ UNCHANGED <<filters, followers, states, cells, stateFout, disk, closed, closeOk, gen>>

FsRemove(p) ==
  /\ fsCount < MaxFsEvents
  /\ fsCount' = fsCount + 1
  /\ fs[p] # NoFile
  /\ fs' = [fs EXCEPT ![p] = NoFile]
  /\ External
  /\ UNCHANGED <<filters, followers, states, cells, stateFout, disk, closed, closeOk, gen>>

Keys == {FileName(a.bname, p) : a \in FilterArgs, p \in Paths}

Next ==
  \/ \E a \in FilterArgs : AddFilter(a)
  \/ \E p \in Paths : NewFollower(p)
  \/ \E p \in Paths : LoadFile(p)
  \/ \E p \in Paths : RemoveFollower(p)
  \/ \E p \in Paths : RenameFollower(p)
  \/ Close
  \/ Reopen
  \/ Unlock
  \/ \E k \in Keys : FollowerRead(k)
  \/ \E p \in Paths, id \in Ids : FsCreate(p, id)
  \/ \E p, q \in Paths : FsRename(p, q)
  \/ \E p \in Paths : FsRemove(p)

Spec == Init /\ [][Next]_vars

\* ------------------------------------------------- the mutex taken apart
\* Every public method begins with f.mtx.Lock() and defers f.mtx.Unlock().
\* A caller invokes a method, waits in Lock, holds the mutex from there on
\* (what it finds in the guarded tables is what they hold at that moment),
\* runs the method's body, and unlocks on return.
tableOps == {"NewFollower", "LoadFile", "RemoveFollower", "RenameFollower"}
countOps == {"Followed", "Filters"}
Ops ==
  {[op |-> "AddFilter", arg |-> a] : a \in FilterArgs} \cup
  {[op |-> o, arg |-> p] : o \in tableOps, p \in Paths} \cup
  {[op |-> o, arg |-> StateFilePath] : o \in countOps \cup {"Close"}}

\* Calls the bounds of the model let run to their end.
Runnable(o) ==
  /\ o.op = "AddFilter" => Len(filters) < MaxFilters
  /\ o.op \in {"NewFollower", "LoadFile"} => Followed < MaxFollowed
  /\ o.op # "Close" => ~closed

Invoke(c, o) ==
  /\ pc[c].at = "idle"
  /\ last.op # "NewFilterManager"
  /\ Runnable(o)
  /\ acquired + Cardinality({d \in Callers : pc[d].at = "wait"}) < MaxCalls
  /\ pc' = [pc EXCEPT ![c] = [NotCalling EXCEPT !.at = "wait", !.op = o.op, !.arg = o.arg]]
  /\ UNCHANGED <<filters, followers, states, cells, stateFout, disk, fs, closed, last, log,
                 fsCount, origin, pre, closeOk, gen, mtx, acquired, returned>>

\* Fault: a Lock that does not wait for the holder.
canLockAlways(m) == TRUE

\* sync.Mutex: Lock returns only when no one holds the mutex.
canLock(m) == m = 0

Lock(c) ==
  /\ pc[c].at = "wait"
  /\ canLock(mtx)
  /\ mtx' = c
  /\ acquired' = acquired + 1
  /\ pc' = [pc EXCEPT ![c].at = "held", ![c].seen = Guarded(Tables),
                      ![c].ticket = acquired + 1]
  /\ UNCHANGED <<filters, followers, states, cells, stateFout, disk, fs, closed, last, log,
                 fsCount, origin, pre, closeOk, gen, returned>>

Holds(op, arg) ==
  \E c \in Callers : pc[c].at = "held" /\ pc[c].op = op /\ pc[c].arg = arg

LockedAddFilter(a) == Holds("AddFilter", a) /\ AddFilter(a)
LockedNewFollower(fpath) == Holds("NewFollower", fpath) /\ NewFollower(fpath)
LockedLoadFile(fpath) == Holds("LoadFile", fpath) /\ LoadFile(fpath)
LockedRemoveFollower(fpath) == Holds("RemoveFollower", fpath) /\ RemoveFollower(fpath)
LockedRenameFollower(fpath) == Holds("RenameFollower", fpath) /\ RenameFollower(fpath)
LockedClose == Holds("Close", StateFilePath) /\ Close

\* Followed() and Filters(): the length of a table, read under the mutex.
LockedCount(op) ==
  /\ Holds(op, StateFilePath)
  /\ Idle
  /\ Running
  /\ last' = Call(op, StateFilePath, NoErr)
  /\ log' = <<>>
  /\ origin' = [c \in DOMAIN cells |-> c]
  /\ pre' = Tables
  /\ UNCHANGED <<filters, followers, states, cells, stateFout, disk, fs, closed, fsCount,
                 closeOk, gen, mtx, pc, acquired, returned>>

\* The deferred f.mtx.Unlock() of the caller whose method has run.
DeferredUnlock(c) ==
  /\ pc[c].at = "held"
  /\ last.op = pc[c].op
  /\ Return
  /\ mtx' = 0
  /\ returned' = returned + 1
  /\ pc' = [pc EXCEPT ![c] = NotCalling]
  /\ UNCHANGED acquired

\* NewFilterManager hands the manager to its callers.
Handover == last.op = "NewFilterManager" /\ Unlock

NextLock ==
  \/ Handover
  \/ \E c \in Callers, o \in Ops : Invoke(c, o)
  \/ \E c \in Callers : Lock(c)
  \/ \E a \in FilterArgs : LockedAddFilter(a)
  \/ \E p \in Paths : LockedNewFollower(p)
  \/ \E p \in Paths : LockedLoadFile(p)
  \/ \E p \in Paths : LockedRemoveFollower(p)
  \/ \E p \in Paths : LockedRenameFollower(p)
  \/ LockedClose
  \/ \E op \in countOps : LockedCount(op)
  \/ \E c \in Callers : DeferredUnlock(c)
  \/ \E k \in Keys : FollowerRead(k)
  \/ \E p, q \in Paths : FsRename(p, q)

SpecLock == Init /\ [][NextLock]_vars

\* -------------------------------------------------------------- properties
\* The properties speak of the state a call leaves before its mutex is
\* released: last is the call, pre the tables it began with, log what it did
\* to followers and to the state file, origin the cell each cell was.
Intake == last.op \in {"NewFollower", "LoadFile"}
Did(ev, k) == \E n \in 1..Len(log) : log[n] = Event(ev, k)
Started == {log[n].key : n \in {m \in 1..Len(log) : log[m].ev = "start"}}
NameAt(k, fpath) == FileName(k.BaseName, fpath)
IdentityFollowed == \E k \in DOMAIN pre.followers : pre.followers[k].id = fs[last.fpath]
OwnFilter(k) == pre.filters[pre.followers[k].filterId + 1]
KeysOf(fpath) == {FileName(filters[i + 1].bname, fpath) : i \in matching(fpath)}

\* The follower now at k2 is the one the call found at k, on the cell it had.
SameFollower(k, k2) ==
  /\ k2 \in DOMAIN followers
  /\ k2 \notin Started
  /\ followers[k2].id = pre.followers[k].id
  /\ followers[k2].filterId = pre.followers[k].filterId
  /\ origin[followers[k2].state] = pre.followers[k].state
  /\ k2 \in DOMAIN states
  /\ states[k2] = followers[k2].state
  /\ cells[states[k2]] = pre.cells[pre.followers[k].state]

\* The follower now at key was started by the call and reads from offset 0.
FreshFollower(key) ==
  /\ key \in DOMAIN followers
  /\ key \in Started
  /\ followers[key].id = fs[last.fpath]
  /\ cells[followers[key].state] = 0

\* C1: when NewFollower(path) or LoadFile(path) is called and a follower's
\* recorded identity is that of path, and path still satisfies that follower's
\* filter, the same follower and the same offset cell are registered under
\* (same filter name, path) afterwards, the offset is unchanged, the follower
\* was not closed and the call started no follower.
C1_RenamePreservation ==
  (Intake /\ fs[last.fpath] # NoFile) =>
    \A k \in DOMAIN pre.followers :
      (/\ pre.followers[k].id = fs[last.fpath]
       /\ satisfies(OwnFilter(k), last.fpath))
      => /\ SameFollower(k, NameAt(k, last.fpath))
         /\ ~Did("close", k)
         /\ Started = {}

\* C2: when NewFollower(path) or LoadFile(path) is called and a follower's
\* recorded identity is that of path, but path no longer satisfies that
\* follower's filter, the follower is closed and it and its offset cell leave
\* their tables, so that no follower of the old filter is keyed at path; every
\* filter path does satisfy gets a follower at (filter, path) with offset 0.
C2_RenameMigration ==
  (Intake /\ fs[last.fpath] # NoFile /\ last.err = NoErr) =>
    \A k \in DOMAIN pre.followers :
      (/\ pre.followers[k].id = fs[last.fpath]
       /\ ~satisfies(OwnFilter(k), last.fpath))
      => /\ Did("close", k)
         /\ k.FilePath # last.fpath => (k \notin DOMAIN followers /\ k \notin DOMAIN states)
         /\ NameAt(k, last.fpath) \in DOMAIN followers =>
              followers[NameAt(k, last.fpath)].filterId # pre.followers[k].filterId
         /\ \A key \in KeysOf(last.fpath) : FreshFollower(key)

\* C3: when RenameFollower(oldPath) finds the followed file's identity at
\* newPath # oldPath under the follower's own filter, (filter, newPath) holds
\* the same follower and the same cell with the same value afterwards, the
\* follower was not closed, and neither the follower table nor the offset map
\* has an entry left at (filter, oldPath).
C3_RenameFollowerRekey ==
  (last.op = "RenameFollower" /\ last.err = NoErr) =>
    \A k \in DOMAIN pre.followers :
      LET v == pre.followers[k]
          found == findFileId(OwnFilter(k).loc, OwnFilter(k).mtchs, v.id)
      IN (/\ k.FilePath = last.fpath
          /\ v.FileName = k
          /\ \A j \in DOMAIN pre.followers :
               (j.FilePath = last.fpath \/ pre.followers[j].FileName.FilePath = last.fpath)
                 => j = k
          /\ OwnFilter(k).bname = k.BaseName
          /\ \A i \in 0..(v.filterId - 1) : pre.filters[i + 1].bname # k.BaseName
          /\ found # {}
          /\ last.fpath \notin found)
         => \A newPath \in found :
              /\ SameFollower(k, NameAt(k, newPath))
              /\ ~Did("close", k)
              /\ k \notin DOMAIN followers
              /\ k \notin DOMAIN states

\* C4: for every filter matching path, if the offset map holds a cell for
\* (filter, path) when LoadFile(path) is called, then after a successful call a
\* follower exists at (filter, path) bound to that cell, whose value the call
\* has not reset or replaced; in a startup scan (path not followed yet) and in
\* a rescan (path followed already, identity unchanged).
StartupScan ==
  \A k \in DOMAIN pre.followers :
    k.FilePath # last.fpath /\ pre.followers[k].id # fs[last.fpath]
Rescan ==
  /\ IdentityFollowed
  /\ \A k \in DOMAIN pre.followers :
       (k.FilePath = last.fpath) <=> (pre.followers[k].id = fs[last.fpath])
C4_LoadFileReuse ==
  (last.op = "LoadFile" /\ last.err = NoErr /\ (StartupScan \/ Rescan)) =>
    \A key \in KeysOf(last.fpath) :
      key \in DOMAIN pre.states =>
        /\ key \in DOMAIN followers
        /\ followers[key].id = fs[last.fpath]
        /\ origin[followers[key].state] = pre.states[key]
        /\ cells[followers[key].state] = pre.cells[pre.states[key]]

\* C5: after a successful NewFollower(path) for a file whose identity no
\* follower has, every filter whose directory is path's and whose patterns
\* match its base name has a follower at (filter, path), started by the call,
\* whose offset cell holds 0 whatever offset the offset map recorded for the
\* key; and the call started no follower for a filter that does not match.
C5_NewFollowerFresh ==
  (last.op = "NewFollower" /\ last.err = NoErr /\ ~IdentityFollowed) =>
    /\ \A key \in KeysOf(last.fpath) : FreshFollower(key)
    /\ \A key \in Started :
         /\ key \in DOMAIN followers
         /\ key.FilePath = last.fpath
         /\ satisfies(filters[followers[key].filterId + 1], last.fpath)

\* NewFollower started a follower at 0 on a key whose recorded offset was 1.
C5_Witness ==
  /\ last.op = "NewFollower"
  /\ last.err = NoErr
  /\ ~IdentityFollowed
  /\ \E key \in KeysOf(last.fpath) \cap DOMAIN pre.states :
       /\ pre.cells[pre.states[key]] = 1
       /\ FreshFollower(key)
  /\ \E i \in 0..(Len(filters) - 1) : ~satisfies(filters[i + 1], last.fpath)

\* C6: when intake reaches a key occupied by a follower whose recorded identity
\* differs from the file's, the stale follower is closed and it and its cell
\* are discarded before the new follower is created; the new follower starts at
\* offset 0 and its cell is the one the offset map registers under the key.
C6_StaleReplacement ==
  (Intake /\ last.err = NoErr /\ ~IdentityFollowed) =>
    \A key \in KeysOf(last.fpath) \cap DOMAIN pre.followers :
      /\ \E m, n \in 1..Len(log) :
           m < n /\ log[m] = Event("close", key) /\ log[n] = Event("start", key)
      /\ FreshFollower(key)
      /\ key \in DOMAIN states
      /\ states[key] = followers[key].state

\* C7: after RemoveFollower(path) returns, no follower that was registered at
\* (filter, path) for a registered filter is left there, nor its offset cell,
\* and each of them was closed, whether or not a close reported a failure.
C7_RemoveFollowerTeardown ==
  last.op = "RemoveFollower" =>
    \A i \in 0..(Len(filters) - 1) :
      LET key == FileName(filters[i + 1].bname, last.fpath) IN
      key \in DOMAIN pre.followers =>
        /\ Did("close", key)
        /\ key \notin DOMAIN followers
        /\ key \notin DOMAIN states

\* C8: if RenameFollower(oldPath) finds no file with the follower's identity
\* that satisfies a filter following oldPath, every follower at oldPath is
\* closed and its offset cell discarded; a NewFollower(oldPath) for a new file
\* of another identity then starts a follower at offset 0.
FollowedAt == {k \in DOMAIN pre.followers :
                 /\ k.FilePath = last.fpath
                 /\ \E i \in 1..Len(pre.filters) : pre.filters[i].bname = k.BaseName}
SearchedIds == {pre.followers[k].id :
                  k \in {j \in DOMAIN pre.followers :
                           pre.followers[j].FileName.FilePath = last.fpath}}
LeftScope ==
  /\ FollowedAt # {}
  /\ \A k \in FollowedAt : pre.followers[k].FileName = k
  /\ \A i \in 1..Len(pre.filters) : \A id \in SearchedIds :
       FileName(pre.filters[i].bname, last.fpath) \in FollowedAt
         => findFileId(pre.filters[i].loc, pre.filters[i].mtchs, id) = {}
C8_RenameFollowerLeftScope ==
  /\ (/\ last.op = "RenameFollower"
      /\ \A n \in 1..Len(last.err) : last.err[n].kind # "walk"
      /\ LeftScope)
     => \A k \in FollowedAt :
          /\ Did("close", k)
          /\ k \notin DOMAIN followers
          /\ k \notin DOMAIN states
  /\ (last.op = "NewFollower" /\ last.err = NoErr /\ ~IdentityFollowed)
     => \A key \in KeysOf(last.fpath) : FreshFollower(key)

\* C9: Close closes every active follower even when an earlier close failed,
\* clears the follower table and the filter registry (Followed() and
\* Filters() are 0 afterwards), and writes the snapshot of the offset map and
\* releases the state file's handle only after all followers were closed, the
\* snapshot before the release.
C9_ShutdownSequence ==
  last.op = "Close" =>
    /\ \A k \in DOMAIN pre.followers : Did("close", k)
    /\ Followed = 0
    /\ Filters = 0
    /\ \A m, n \in 1..Len(log) :
         (log[m].ev \in {"close", "close error"} /\ log[n].ev \in {"dump", "fclose", "fclose nil"})
           => m < n
    /\ \A n \in 1..Len(log) :
         log[n].ev = "fclose" => \E m \in 1..(n - 1) : log[m].ev = "dump"
    /\ (stateFout = "nil" /\ Did("fclose", StateKey)) =>
         disk = [ok |-> TRUE, data |-> [k \in DOMAIN pre.states |-> pre.cells[pre.states[k]]]]

\* Close went on after the first follower's close failed, closed the second,
\* wrote the snapshot and released the handle.
C9_Witness ==
  /\ last.op = "Close"
  /\ Len(log) = 5
  /\ log[1].ev = "close"
  /\ log[2].ev = "close error"
  /\ log[3].ev = "close"
  /\ log[3].key # log[1].key
  /\ log[4].ev = "dump"
  /\ log[5].ev = "fclose"
  /\ stateFout = "nil"
  /\ Cardinality(DOMAIN pre.followers) = 2
  /\ Len(pre.filters) > 0

\* C10: the error Close returns reports every follower close that failed,
\* whether the snapshot write and the release of the handle succeed or fail.
C10_MergedShutdownErrors ==
  last.op = "Close" =>
    \A n \in 1..Len(log) :
      log[n].ev = "close error" =>
        \E m \in 1..Len(last.err) : last.err[m] = [kind |-> "close", key |-> log[n].key]

\* C11: a second Close after a successful first Close returns no error, does
\* not call Close on the released state-file handle, and leaves the snapshot
\* as the first call wrote it.
SecondClose == last.op = "Close" /\ closeOk = "ok" /\ pre.stateFout = "nil"
C11_CloseIdempotent ==
  SecondClose =>
    /\ last.err = NoErr
    /\ ~Did("fclose nil", StateKey)
    /\ ~Did("fclose", StateKey)
    /\ disk = [ok |-> TRUE, data |-> [k \in DOMAIN pre.states |-> pre.cells[pre.states[k]]]]

\* C12: after a successful Close the state file holds exactly the offset map
\* as it was at Close, and a manager constructed from that file has the
\* persisted map after sanitation: entries of missing files dropped, offsets
\* larger than the file's size reset to 0, all others identical.
OffsetsOf(T) == [k \in DOMAIN T.states |-> T.cells[T.states[k]]]
Sanitized(data) ==
  [k \in {x \in DOMAIN data : fs[x.FilePath] # NoFile} |->
     IF data[k] > FileSize(fs[k.FilePath]) THEN 0 ELSE data[k]]
Reconstructed == last.op = "NewFilterManager" /\ last.err = NoErr /\ gen > 0
C12_RoundTripSnapshot ==
  /\ (last.op = "Close" /\ last.err = NoErr) =>
       disk = [ok |-> TRUE, data |-> OffsetsOf(pre)]
  /\ (Reconstructed /\ disk.data = OffsetsOf(pre)) =>
       [k \in DOMAIN states |-> cells[states[k]]] = Sanitized(OffsetsOf(pre))

\* A manager that registered a key of its own was closed and constructed
\* again; one entry of its snapshot was dropped and one with offset 1 kept.
C12_Witness ==
  /\ Reconstructed
  /\ disk.data = OffsetsOf(pre)
  /\ \E k \in DOMAIN pre.states : k \notin DOMAIN Start.data
  /\ \E k \in DOMAIN pre.states : k \notin DOMAIN states
  /\ \E k \in DOMAIN states : cells[states[k]] = 1

\* C13: construction sanitizes every loaded entry (key, offset): if no file is
\* at the key's path the entry is absent from the offset map, and a follower
\* started later at that key does not get the old offset; if the file is
\* smaller than the offset the offset becomes 0; otherwise it is unchanged.
Constructed == last.op = "NewFilterManager" /\ last.err = NoErr
DroppedAtStart == {k \in DOMAIN Start.data : Start.files[k.FilePath] = NoFile}
C13_Sanitation ==
  /\ Constructed =>
       \A k \in DOMAIN disk.data :
         /\ fs[k.FilePath] = NoFile => k \notin DOMAIN states
         /\ (fs[k.FilePath] # NoFile /\ FileSize(fs[k.FilePath]) < disk.data[k]) =>
              (k \in DOMAIN states /\ cells[states[k]] = 0)
         /\ (fs[k.FilePath] # NoFile /\ FileSize(fs[k.FilePath]) >= disk.data[k]) =>
              (k \in DOMAIN states /\ cells[states[k]] = disk.data[k])
  /\ (Intake /\ gen = 0) =>
       \A key \in Started \cap DroppedAtStart :
         key \notin DOMAIN pre.states => cells[followers[key].state] = 0

\* LoadFile started a follower at offset 0 on a key whose entry, with offset
\* 1, construction had dropped; the file now there is large enough for it.
C13_Witness ==
  /\ last.op = "LoadFile"
  /\ last.err = NoErr
  /\ gen = 0
  /\ \E key \in Started \cap DroppedAtStart :
       /\ Start.data[key] = 1
       /\ FileSize(fs[key.FilePath]) >= 1
       /\ key \notin DOMAIN pre.states
       /\ cells[followers[key].state] = 0

\* C14: when NewFollower(path) or LoadFile(path) returns without error for a
\* path whose identity was not followed, the N filters the path satisfies
\* give N tracking keys, each with a follower of that filter on the file now
\* at the path, the N followers reference N pairwise distinct offset cells,
\* a key that had no follower has its cell in the offset map, and the
\* follower table holds the followers it held plus one per matching filter.
MultiIntake == Intake /\ last.err = NoErr /\ ~IdentityFollowed
C15_SingleWriterPerCell ==
  \A k1, k2 \in DOMAIN followers :
    k1 # k2 => followers[k1].state # followers[k2].state

\* C17: when RenameFollower(oldPath) returns without error, oldPath was
\* followed under several filters, and the followed file is now at another
\* path, no follower remains keyed at oldPath.
MovedAway ==
  /\ Cardinality(FollowedAt) >= 2
  /\ \A k \in FollowedAt :
       /\ pre.followers[k].FileName = k
       /\ pre.followers[k].id # fs[last.fpath]
       /\ \E q \in Paths : q # last.fpath /\ fs[q] = pre.followers[k].id
C17_RenameFollowerEveryFilter ==
  (last.op = "RenameFollower" /\ last.err = NoErr /\ MovedAway) =>
    \A k \in DOMAIN followers : k.FilePath # last.fpath

\* C18: in every reachable state before Close, every key of the follower
\* table is a key of the offset map, and the offset map holds at that key
\* the cell the follower references.
C18_FollowerOffsetConsistency ==
  ~closed =>
    \A k \in DOMAIN followers :
      k \in DOMAIN states /\ states[k] = followers[k].state

\* C19: in every reachable state each follower of the follower table records
\* as its own name the tracking key it is registered at.
C19_FollowerNameIsKey ==
  \A k \in DOMAIN followers : followers[k].FileName = k

\* C20: in every reachable state every follower's filter id is an index of
\* the filter registry, the filter at that index has the name of the
\* follower's tracking key, and no call has failed indexing the registry.
C20_ValidFilterId ==
  /\ \A k \in DOMAIN followers :
       /\ 0 <= followers[k].filterId
       /\ followers[k].filterId < Len(filters)
       /\ filters[followers[k].filterId + 1].bname = k.BaseName
  /\ \A k \in Keys \cup {StateKey} : last.err # Err("index out of range", k)

\* Rename detection has looked a follower's filter up in a registry of two
\* filters, the follower being of the second.
C20_Witness ==
  /\ Intake
  /\ Len(filters) = 2
  /\ \E k \in DOMAIN pre.followers :
       /\ pre.followers[k].id = fs[last.fpath]
       /\ pre.followers[k].filterId = 1
\* C16: with callers running concurrently, at most one caller is between
\* Lock and Unlock and it is the holder of the mutex; a method's body finds
\* the filter registry, the follower table, the offset map and the store
\* handle as they were when its caller took the mutex; and the bodies run in
\* the order the mutex was taken.
Holders == {c \in Callers : pc[c].at = "held"}
C16_Serialization ==
  /\ Cardinality(Holders) <= 1
  /\ \A c \in Holders : mtx = c
  /\ (~Idle /\ last.op # "NewFilterManager") =>
       \E c \in Holders :
         /\ pc[c].op = last.op
         /\ pc[c].seen = Guarded(pre)
         /\ pc[c].ticket = returned + 1

\* The second caller to take the mutex has run a method that changed a
\* table, while the other caller waits in Lock.
C16_Witness ==
  /\ \E c \in Holders :
       /\ pc[c].op = last.op
       /\ pc[c].ticket = 2
       /\ Guarded(Tables) # Guarded(pre)
  /\ \E d \in Callers : pc[d].at = "wait"
====
